---- MODULE Spec2Model ----
(***************************************************************************)
(* Model of server.js: the /proxy route of the Express app and the        *)
(* WebSocket room relay attached to the same HTTP server.                 *)
(*                                                                         *)
(* Text and bytes are sequences of one-unit strings: an ASCII character   *)
(* and its byte are the same unit ("<", "h", ...); the byte 0xFF is the   *)
(* unit "xFF"; the two bytes of U+00E9 are "xC3","xA9" and its character  *)
(* is "U+00E9"; the replacement character is "U+FFFD" and its three bytes *)
(* are "xEF","xBF","xBD".                                                  *)
(***************************************************************************)
EXTENDS Integers, Sequences, FiniteSets, TLC

VARIABLES
    alive,      \* the Node process is running (no uncaught exception yet)
    pc,         \* position of the /proxy handler of the request in flight
    target,     \* req.query.url of that request
    upstream,   \* what the outbound fetch met: failure or response
    fetches,    \* number of outbound fetch() calls issued for the request
    copied,     \* the res.setHeader(key, value) calls of the copy loop
    res,        \* the Express response object of the request
    conns,      \* per WebSocket connection, in order of arrival: the closure
                \* variables of its handlers (type, roomId, room), ws.meta and
                \* ws.readyState
    rooms,      \* the rooms Map: room key -> room object
    heap,       \* room objects by identity: [viewers, controllers], each a Set
                \* in insertion order
    lastMsg     \* what the event handler that ran last did: the ws.send calls
                \* of a "message" handler (threw: the socket whose send threw),
                \* the socket an "error" handler logged a warning for

proxyVars == <<pc, target, upstream, fetches, copied, res>>
relayVars == <<conns, rooms, heap, lastMsg>>
vars == <<alive, pc, target, upstream, fetches, copied, res, conns, rooms, heap, lastMsg>>

(***************************************************************************)
(* Bounds of the model.                                                    *)
(***************************************************************************)
MaxParts == 2       \* header lines plus body pieces of one upstream response
MaxConns == 3       \* WebSocket connections accepted in one run

\* ---------------------------------------------------------------------------
\* Generic helpers
\* ---------------------------------------------------------------------------
Range(s) == {s[i] : i \in 1..Len(s)}

SeqsUpTo(S, n) == UNION {[1..k -> S] : k \in 0..n}

RECURSIVE Flatten(_)
Flatten(ss) == IF ss = <<>> THEN <<>> ELSE Head(ss) \o Flatten(Tail(ss))

\* ---------------------------------------------------------------------------
\* Text <-> bytes (resp.text(), Buffer.toString(), res.send(string), ws.send(string))
\* ---------------------------------------------------------------------------
IsAsciiUnit(u) == u \notin {"xFF", "xC3", "xA9", "xEF", "xBF", "xBD", "U+FFFD", "U+00E9"}

\* UTF-8 decoding with replacement of malformed input, as TextDecoder and
\* Buffer.prototype.toString("utf8") do it.
RECURSIVE Utf8Decode(_)
Utf8Decode(bytes) ==
    IF bytes = <<>> THEN <<>>
    ELSE IF IsAsciiUnit(bytes[1]) THEN <<bytes[1]>> \o Utf8Decode(Tail(bytes))
    ELSE IF Len(bytes) >= 2 /\ bytes[1] = "xC3" /\ bytes[2] = "xA9"
         THEN <<"U+00E9">> \o Utf8Decode(SubSeq(bytes, 3, Len(bytes)))
    ELSE IF Len(bytes) >= 3 /\ bytes[1] = "xEF" /\ bytes[2] = "xBF" /\ bytes[3] = "xBD"
         THEN <<"U+FFFD">> \o Utf8Decode(SubSeq(bytes, 4, Len(bytes)))
    ELSE <<"U+FFFD">> \o Utf8Decode(Tail(bytes))

\* UTF-8 encoding of a JavaScript string.
RECURSIVE Utf8Encode(_)
Utf8Encode(text) ==
    IF text = <<>> THEN <<>>
    ELSE (CASE text[1] = "U+FFFD" -> <<"xEF", "xBF", "xBD">>
            [] text[1] = "U+00E9" -> <<"xC3", "xA9">>
            [] OTHER -> <<text[1]>>) \o Utf8Encode(Tail(text))

\* ---------------------------------------------------------------------------
\* The url query parameter and new URL(target)
\* ---------------------------------------------------------------------------
\* A target is the string scheme "://" host port rest, kept in its parts; given
\* is FALSE when the query has no url parameter at all.
NoUrl == [given |-> FALSE, scheme |-> "", host |-> "", port |-> "", rest |-> ""]

Url(s, h, p, r) == [given |-> TRUE, scheme |-> s, host |-> h, port |-> p, rest |-> r]

Targets ==
    { NoUrl,
      Url("", "", "", ""),                          \* /proxy?url=
      Url("", "", "", "/a?q=1"),                    \* a relative reference
      Url("", "example.com", "", ""),               \* no scheme
      Url("https", "example.com", "", ""),
      Url("https", "example.com", ":443", "/"),
      Url("http", "example.com", ":8080", "/a?q=1#f") }

\* The string itself.
TargetString(t) ==
    (IF t.scheme = "" THEN "" ELSE t.scheme \o "://") \o t.host \o t.port \o t.rest

\* !target, were only an absent parameter falsy
IsFalsyAbsentOnly(t) == ~t.given

\* !target
IsFalsy(t) == ~t.given \/ TargetString(t) = ""

\* new URL(target) returns (rather than throws TypeError: Invalid URL)
Parses(t) == t.scheme # "" /\ t.host # ""

DefaultPort(scheme) == IF scheme = "https" THEN ":443" ELSE ":80"

\* targetUrl.origin: scheme, host and the port unless it is the scheme's default
Origin(t) ==
    t.scheme \o "://" \o t.host \o (IF t.port = DefaultPort(t.scheme) THEN "" ELSE t.port)

\* ---------------------------------------------------------------------------
\* Header names and values
\* ---------------------------------------------------------------------------
\* String.prototype.toLowerCase on the header names of the model
toLowerCase(name) ==
    CASE name = "X-Frame-Options" -> "x-frame-options"
      [] name = "X-FRAME-OPTIONS" -> "x-frame-options"
      [] name = "Content-Security-Policy" -> "content-security-policy"
      [] name = "Content-Security-Policy-Report-Only" -> "content-security-policy-report-only"
      [] name = "Strict-Transport-Security" -> "strict-transport-security"
      [] name = "Content-Encoding" -> "content-encoding"
      [] name = "Transfer-Encoding" -> "transfer-encoding"
      [] name = "Content-Type" -> "content-type"
      [] name = "ETag" -> "etag"
      [] name = "Set-Cookie" -> "set-cookie"
      [] name = "X-Content-Type-Options" -> "x-content-type-options"
      [] name = "Access-Control-Allow-Origin" -> "access-control-allow-origin"
      [] OTHER -> name

\* the skip list without its last entry
headersToSkipShort ==
    << "x-frame-options",
       "content-security-policy",
       "content-security-policy-report-only",
       "strict-transport-security",
       "content-encoding" >>

headersToSkip ==
    << "x-frame-options",
       "content-security-policy",
       "content-security-policy-report-only",
       "strict-transport-security",
       "content-encoding",
       "transfer-encoding" >>

\* Array.prototype.includes
includes(arr, x) == \E i \in 1..Len(arr) : arr[i] = x

\* A header value is a sequence of parts; contentType.includes("text/html") is
\* the presence of the part "text/html" (no other part contains that text).
ContainsTextHtml(value) == \E i \in 1..Len(value) : value[i] = "text/html"

DefaultContentType == <<"text/html", "; charset=utf-8">>

\* ---------------------------------------------------------------------------
\* The upstream side of fetch()
\* ---------------------------------------------------------------------------
Line(n, v) == [name |-> n, value |-> v]

\* Header lines an upstream response is put together from.
HeaderLines ==
    { Line("X-Frame-Options", <<"DENY">>),
      Line("x-frame-options", <<"SAMEORIGIN">>),
      Line("Content-Security-Policy", <<"default-src 'self'">>),
      Line("content-security-policy-report-only", <<"default-src 'none'">>),
      Line("Strict-Transport-Security", <<"max-age=1">>),
      Line("Content-Encoding", <<"gzip">>),
      Line("transfer-encoding", <<"chunked">>),
      Line("Content-Type", <<"text/html">>),
      Line("content-type", <<"image/png">>),
      Line("ETag", <<"W/1">>),
      Line("Set-Cookie", <<"a=1">>),
      Line("set-cookie", <<"b=2">>) }

UpstreamHeaders == SeqsUpTo(HeaderLines, MaxParts)

\* Upstream statuses; 304 is a null body status (the Response has no body).
UpstreamStatuses == {200, 304, 404, 500}

IsNullBodyStatus(status) == status \in {101, 204, 205, 304}

\* Pieces an upstream body is put together from.
BodyPieces ==
    { <<"<", "h", "e", "a", "d", ">">>,
      <<"<", "H", "E", "A", "D", " ", "a", ">">>,
      <<"<", "h", "e", "a", "d", "e", "r", ">">>,
      <<"<", "h", "e", "a", "d">>,
      <<"x">>,
      <<"xFF">> }

UpstreamBodies(raw) == {Flatten(ps) : ps \in SeqsUpTo(BodyPieces, MaxParts - Len(raw))}

FetchErrors == {"fetch failed", "The operation was aborted"}

NoUpstream == [ok |-> FALSE, message |-> "", status |-> 0, headers |-> <<>>, body |-> <<>>]

\* ---------------------------------------------------------------------------
\* resp.headers: the Headers object of the fetch Response
\* ---------------------------------------------------------------------------
\* The names of the model in the order the Headers iterator sorts them.
SortedNames ==
    << "content-encoding", "content-security-policy",
       "content-security-policy-report-only", "content-type", "etag", "set-cookie",
       "strict-transport-security", "transfer-encoding", "x-frame-options" >>

RECURSIVE ValuesOf(_, _)
ValuesOf(raw, key) ==
    IF raw = <<>> THEN <<>>
    ELSE (IF toLowerCase(raw[1].name) = key THEN <<raw[1].value>> ELSE <<>>)
         \o ValuesOf(Tail(raw), key)

\* values of one name combined with ", "
RECURSIVE Join(_)
Join(values) ==
    IF values = <<>> THEN <<>>
    ELSE IF Len(values) = 1 THEN values[1]
    ELSE values[1] \o <<", ">> \o Join(Tail(values))

\* resp.headers.get(name): null (here the empty value) when the name is absent
HeadersGet(raw, key) == Join(ValuesOf(raw, toLowerCase(key)))

\* The (key, value) pairs resp.headers.forEach visits: names lower-cased and
\* sorted, the values of one name combined, set-cookie values kept apart.
HeadersEntries(raw) ==
    Flatten([i \in 1..Len(SortedNames) |->
        LET key == SortedNames[i]
            vals == ValuesOf(raw, key)
        IN  IF vals = <<>> THEN <<>>
            ELSE IF key = "set-cookie"
                 THEN [j \in 1..Len(vals) |-> [key |-> key, value |-> vals[j]]]
            ELSE << [key |-> key, value |-> Join(vals)] >>])

\* ---------------------------------------------------------------------------
\* The Express response
\* ---------------------------------------------------------------------------
\* res.setHeader(key, value): names are case-insensitive, the last value wins
setHeader(headers, key, value) ==
    [k \in DOMAIN headers \cup {toLowerCase(key)} |->
        IF k = toLowerCase(key) THEN value ELSE headers[k]]

\* helmet({contentSecurityPolicy: false}): the default headers but CSP
helmet(headers) ==
    setHeader(setHeader(setHeader(headers,
        "X-Frame-Options", <<"SAMEORIGIN">>),
        "Strict-Transport-Security", <<"max-age=15552000; includeSubDomains">>),
        "X-Content-Type-Options", <<"nosniff">>)

\* cors()
cors(headers) == setHeader(headers, "Access-Control-Allow-Origin", <<"*">>)

NoHeaders == [k \in {} |-> <<>>]

\* res as the middleware chain hands it to a route handler
NewRes == [status |-> 200, headers |-> cors(helmet(NoHeaders)), body |-> <<>>, sends |-> 0]

IdleRes == [status |-> 0, headers |-> NoHeaders, body |-> <<>>, sends |-> 0]

\* res.status(code)
status(r, code) == [r EXCEPT !.status = code]

\* res.send(string) / res.send(Buffer): the body as the bytes put on the wire
sendText(r, text) == [r EXCEPT !.body = Utf8Encode(text), !.sends = @ + 1]

sendBuffer(r, bytes) == [r EXCEPT !.body = bytes, !.sends = @ + 1]

\* the copy loop, lines 87-91, as the sequence of its setHeader calls
CopyCalls(raw) ==
    SelectSeq(HeadersEntries(raw), LAMBDA e : ~includes(headersToSkip, toLowerCase(e.key)))

RECURSIVE ApplyCalls(_, _)
ApplyCalls(headers, calls) ==
    IF calls = <<>> THEN headers
    ELSE ApplyCalls(setHeader(headers, calls[1].key, calls[1].value), Tail(calls))

\* ---------------------------------------------------------------------------
\* body.replace(/<head([^>]*)>/i, (m) => `${m}\n<base href="${origin}">\n`)
\* ---------------------------------------------------------------------------
CharLower(u) ==
    CASE u = "H" -> "h" [] u = "E" -> "e" [] u = "A" -> "a" [] u = "D" -> "d" [] OTHER -> u

\* the text has "<head" (any case) at position i
HeadAt(text, i) ==
    /\ i + 4 <= Len(text)
    /\ text[i] = "<"
    /\ CharLower(text[i + 1]) = "h"
    /\ CharLower(text[i + 2]) = "e"
    /\ CharLower(text[i + 3]) = "a"
    /\ CharLower(text[i + 4]) = "d"

\* the regular expression matches from i: "<head", any units but ">", then ">"
MatchAt(text, i) == HeadAt(text, i) /\ \E j \in (i + 5)..Len(text) : text[j] = ">"

\* where the match starting at i ends: the first ">" after "<head"
MatchEnd(text, i) ==
    CHOOSE j \in (i + 5)..Len(text) :
        text[j] = ">" /\ \A k \in (i + 5)..(j - 1) : text[k] # ">"

BaseElement(origin) == "<base href=\"" \o origin \o "\">"

injectBase(text, origin) ==
    IF \E i \in 1..Len(text) : MatchAt(text, i)
    THEN LET i == CHOOSE i \in 1..Len(text) :
                      MatchAt(text, i) /\ \A k \in 1..(i - 1) : ~MatchAt(text, k)
             j == MatchEnd(text, i)
         IN  SubSeq(text, 1, j) \o <<"\n", BaseElement(origin), "\n">>
             \o SubSeq(text, j + 1, Len(text))
    ELSE text

\* ---------------------------------------------------------------------------
\* app.get("/proxy", async (req, res) => ...)
\* ---------------------------------------------------------------------------
\* the catch block: res.status(502).send("Proxy fetch failed: " + err.message)
catchError(r, message) == sendText(status(r, 502), <<"Proxy fetch failed: " \o message>>)

\* A request arrives: the handler runs up to its first await or to its return.
ProxyRequest(t) ==
    /\ alive
    /\ pc = "idle"
    /\ target' = t
    /\ upstream' = NoUpstream
    /\ copied' = <<>>
    /\ IF IsFalsy(t)
       THEN /\ res' = sendText(status(NewRes, 400), <<"Missing 'url' query parameter.">>)
            /\ fetches' = 0
            /\ pc' = "done"
       ELSE IF ~Parses(t)
       THEN /\ res' = catchError(NewRes, "Invalid URL")
            /\ fetches' = 0
            /\ pc' = "done"
       ELSE /\ res' = NewRes
            /\ fetches' = 1
            /\ pc' = "fetch"
    /\ UNCHANGED <<alive, relayVars>>

\* the rejection of fetch outside any try block: an unhandled rejection ends
\* the process and the request gets no response
FetchRejectUncaught(message) ==
    /\ alive
    /\ pc = "fetch"
    /\ upstream' = [NoUpstream EXCEPT !.message = message]
    /\ alive' = FALSE
    /\ pc' = "done"
    /\ UNCHANGED <<res, target, fetches, copied, relayVars>>

\* await fetch(target, ...) rejects
FetchReject(message) ==
    /\ alive
    /\ pc = "fetch"
    /\ upstream' = [NoUpstream EXCEPT !.message = message]
    /\ res' = catchError(res, message)
    /\ pc' = "done"
    /\ UNCHANGED <<alive, target, fetches, copied, relayVars>>

\* the handler forwarding the upstream status: res.status(resp.status)
FetchResolveStatus(code, raw) ==
    /\ alive
    /\ pc = "fetch"
    /\ upstream' = [ok |-> TRUE, message |-> "", status |-> code, headers |-> raw, body |-> <<>>]
    /\ copied' = CopyCalls(raw)
    /\ LET contentType == IF HeadersGet(raw, "content-type") # <<>>
                          THEN HeadersGet(raw, "content-type")
                          ELSE DefaultContentType
       IN  res' = [status(res, code) EXCEPT !.headers =
                      setHeader(ApplyCalls(res.headers, CopyCalls(raw)), "Content-Type", contentType)]
    /\ pc' = "text"
    /\ UNCHANGED <<alive, target, fetches, relayVars>>

\* await fetch(target, ...) resolves: headers are copied, the content type is
\* set, and resp.text() is called
FetchResolve(code, raw) ==
    /\ alive
    /\ pc = "fetch"
    /\ upstream' = [ok |-> TRUE, message |-> "", status |-> code, headers |-> raw, body |-> <<>>]
    /\ copied' = CopyCalls(raw)
    /\ LET contentType == IF HeadersGet(raw, "content-type") # <<>>
                          THEN HeadersGet(raw, "content-type")
                          ELSE DefaultContentType
       IN  res' = [res EXCEPT !.headers =
                      setHeader(ApplyCalls(res.headers, CopyCalls(raw)), "Content-Type", contentType)]
    /\ pc' = "text"
    /\ UNCHANGED <<alive, target, fetches, relayVars>>

\* await resp.text() rejects (the connection breaks while the body is read)
TextReject(message) ==
    /\ alive
    /\ pc = "text"
    /\ upstream' = [upstream EXCEPT !.message = message]
    /\ res' = catchError(res, message)
    /\ pc' = "done"
    /\ UNCHANGED <<alive, target, fetches, copied, relayVars>>

\* await resp.text() resolves with the decoded body
TextResolve(bytes) ==
    /\ alive
    /\ pc = "text"
    /\ IsNullBodyStatus(upstream.status) => bytes = <<>>
    /\ upstream' = [upstream EXCEPT !.body = bytes]
    /\ LET body == Utf8Decode(bytes)
       IN  IF ContainsTextHtml(res.headers["content-type"])
           THEN /\ res' = sendText(res, injectBase(body, Origin(target)))
                /\ pc' = "done"
           ELSE /\ res' = res
                /\ pc' = "arrayBuffer"
    /\ UNCHANGED <<alive, target, fetches, copied, relayVars>>

\* resp.arrayBuffer() after resp.text(): the body stream was consumed by
\* text(), so the second read rejects with TypeError, unless the Response has
\* no body at all (a null body is never "used")
bodyUnusable(up) == ~IsNullBodyStatus(up.status)

ArrayBufferSettle ==
    /\ alive
    /\ pc = "arrayBuffer"
    /\ IF bodyUnusable(upstream)
       THEN res' = catchError(res, "Body is unusable")
       ELSE res' = sendBuffer(res, upstream.body)
    /\ pc' = "done"
    /\ UNCHANGED <<alive, target, upstream, fetches, copied, relayVars>>

\* the response is out; the server takes the next request
ProxyDone ==
    /\ alive
    /\ pc = "done"
    /\ pc' = "idle"
    /\ target' = NoUrl
    /\ upstream' = NoUpstream
    /\ fetches' = 0
    /\ copied' = <<>>
    /\ res' = IdleRes
    /\ UNCHANGED <<alive, relayVars>>

ProxyNext ==
    \/ \E t \in Targets : ProxyRequest(t)
    \/ \E m \in FetchErrors : FetchReject(m)
    \/ pc = "fetch" /\ \E code \in UpstreamStatuses, raw \in UpstreamHeaders : FetchResolve(code, raw)
    \/ \E m \in FetchErrors : TextReject(m)
    \/ pc = "text" /\ \E bytes \in UpstreamBodies(upstream.headers) : TextResolve(bytes)
    \/ ArrayBufferSettle
    \/ ProxyDone

ProxyInit ==
    /\ pc = "idle"
    /\ target = NoUrl
    /\ upstream = NoUpstream
    /\ fetches = 0
    /\ copied = <<>>
    /\ res = IdleRes

\* ---------------------------------------------------------------------------
\* The room registry
\* ---------------------------------------------------------------------------
NoRooms == [k \in {} |-> 0]

NoHeap == [o \in {} |-> 0]

EmptyRoom == [viewers |-> <<>>, controllers |-> <<>>]

\* rooms.has(roomId)
has(map, roomId) == roomId \in DOMAIN map

\* Map.prototype.set / Map.prototype.delete
mapSet(map, key, value) == [k \in DOMAIN map \cup {key} |-> IF k = key THEN value ELSE map[k]]

mapDelete(map, key) == [k \in DOMAIN map \ {key} |-> map[k]]

\* Set.prototype.add / Set.prototype.delete, insertion order kept
setAdd(set, x) == IF x \in Range(set) THEN set ELSE Append(set, x)

setDelete(set, x) == SelectSeq(set, LAMBDA y : y # x)

\* ensureRoom handing out a room that exists under another key
ensureRoomShared(map, objects, roomId, fresh) ==
    IF ~has(map, roomId)
    THEN IF DOMAIN map = {}
         THEN [rooms |-> mapSet(map, roomId, fresh), heap |-> mapSet(objects, fresh, EmptyRoom)]
         ELSE [rooms |-> mapSet(map, roomId, map[CHOOSE k \in DOMAIN map : TRUE]), heap |-> objects]
    ELSE [rooms |-> map, heap |-> objects]

\* ensureRoom(roomId) as the pair (rooms Map, heap) it leaves; a room created
\* here gets the identity fresh
ensureRoom(map, objects, roomId, fresh) ==
    IF ~has(map, roomId)
    THEN [rooms |-> mapSet(map, roomId, fresh), heap |-> mapSet(objects, fresh, EmptyRoom)]
    ELSE [rooms |-> map, heap |-> objects]

\* room objects no live reference leads to are collected
Reachable(cs, map) ==
    {map[k] : k \in DOMAIN map} \cup {cs[c].room : c \in {d \in DOMAIN cs : cs[d].readyState # "CLOSED"}}

Collect(objects, cs, map) == [o \in DOMAIN objects \cap Reachable(cs, map) |-> objects[o]]

\* ---------------------------------------------------------------------------
\* The relay: wss.on("connection"), ws.on("message" | "close" | "error")
\* ---------------------------------------------------------------------------
\* ?type= and ?room= of the upgrade request; "" is an absent parameter
TypeParams == {"", "viewer", "controller", "admin"}

RoomParams == {"", "a"}

\* payloads of inbound frames, as bytes
Payloads ==
    { <<"a">>, <<"xFF">>, <<"\"", "a">>, <<"xC3", "xA9">> }

\* the record of a connection whose close handler has run
ClosedConn ==
    [type |-> "", roomId |-> "", room |-> 0, meta |-> [type |-> "", roomId |-> ""],
     readyState |-> "CLOSED"]

NoMsg == [from |-> 0, payload |-> <<>>, sends |-> <<>>, threw |-> 0, warned |-> 0]

\* JSON.stringify of a string value: quotes and backslashes escaped
RECURSIVE JsonEscape(_)
JsonEscape(text) ==
    IF text = <<>> THEN <<>>
    ELSE (CASE text[1] = "\"" -> <<"\\", "\"">>
            [] text[1] = "\\" -> <<"\\", "\\">>
            [] OTHER -> <<text[1]>>) \o JsonEscape(Tail(text))

\* the envelope put together by string concatenation, nothing escaped
stringifyEnvelopeRaw(msg) ==
    <<"{\"from\":\"viewer\",\"payload\":\"">> \o msg \o <<"\"}">>

\* JSON.stringify({ from: "viewer", payload: msg })
stringifyEnvelope(msg) ==
    <<"{\"from\":\"viewer\",\"payload\":\"">> \o JsonEscape(msg) \o <<"\"}">>

\* the loop without its readyState test
sendToAll(cs, set, text) ==
    [i \in 1..Len(set) |-> [to |-> set[i], data |-> Utf8Encode(text)]]

\* the ws.send(text) calls of one loop over a Set of sockets: the open ones, in
\* insertion order (send on an OPEN socket queues the frame and returns)
sendToOpen(cs, set, text) ==
    LET open == SelectSeq(set, LAMBDA v : cs[v].readyState = "OPEN")
    IN  [i \in 1..Len(open) |-> [to |-> open[i], data |-> Utf8Encode(text)]]

\* the body of the "message" handler of connection c
onMessage(cs, objects, c, msgRaw) ==
    LET msg == Utf8Decode(msgRaw)
        room == objects[cs[c].room]
    IN  IF cs[c].type = "controller"
        THEN sendToOpen(cs, room.viewers, msg)
        ELSE IF cs[c].type = "viewer"
        THEN sendToOpen(cs, room.controllers, stringifyEnvelope(msg))
        ELSE <<>>

\* the "connection" handler with the else of its role test missing: every
\* socket is added to controllers
ConnectNoElse(typeParam, roomParam) ==
    /\ alive
    /\ Len(conns) < MaxConns
    /\ LET ws == Len(conns) + 1
           type == IF typeParam # "" THEN typeParam ELSE "controller"
           roomId == IF roomParam # "" THEN roomParam ELSE "default"
           ensured == ensureRoom(rooms, heap, roomId, ws)
           room == ensured.rooms[roomId]
       IN  /\ rooms' = ensured.rooms
           /\ heap' = IF type = "viewer"
                      THEN [ensured.heap EXCEPT ![room].viewers = setAdd(@, ws),
                                                ![room].controllers = setAdd(@, ws)]
                      ELSE [ensured.heap EXCEPT ![room].controllers = setAdd(@, ws)]
           /\ conns' = Append(conns,
                  [type |-> type, roomId |-> roomId, room |-> room,
                   meta |-> [type |-> type, roomId |-> roomId], readyState |-> "OPEN"])
    /\ lastMsg' = NoMsg
    /\ UNCHANGED <<alive, proxyVars>>

\* wss.on("connection")
Connect(typeParam, roomParam) ==
    /\ alive
    /\ Len(conns) < MaxConns
    /\ LET ws == Len(conns) + 1
           type == IF typeParam # "" THEN typeParam ELSE "controller"
           roomId == IF roomParam # "" THEN roomParam ELSE "default"
           ensured == ensureRoom(rooms, heap, roomId, ws)
           room == ensured.rooms[roomId]
       IN  /\ rooms' = ensured.rooms
           /\ heap' = IF type = "viewer"
                      THEN [ensured.heap EXCEPT ![room].viewers = setAdd(@, ws)]
                      ELSE [ensured.heap EXCEPT ![room].controllers = setAdd(@, ws)]
           /\ conns' = Append(conns,
                  [type |-> type, roomId |-> roomId, room |-> room,
                   meta |-> [type |-> type, roomId |-> roomId], readyState |-> "OPEN"])
    /\ lastMsg' = NoMsg
    /\ UNCHANGED <<alive, proxyVars>>

\* ws.on("message")
Message(c, msgRaw) ==
    /\ alive
    /\ c \in DOMAIN conns
    /\ conns[c].readyState = "OPEN"
    /\ lastMsg' = [NoMsg EXCEPT !.from = c, !.payload = msgRaw,
                                !.sends = onMessage(conns, heap, c, msgRaw)]
    /\ UNCHANGED <<alive, proxyVars, conns, rooms, heap>>

\* ws.on("message") when the k-th send of its loop throws: nothing catches the
\* exception, the loop ends there and the exception leaves the listener, which
\* ends the process
MessageThrows(c, msgRaw, k) ==
    /\ alive
    /\ c \in DOMAIN conns
    /\ conns[c].readyState = "OPEN"
    /\ LET calls == onMessage(conns, heap, c, msgRaw)
       IN  /\ k \in 1..Len(calls)
           /\ lastMsg' = [NoMsg EXCEPT !.from = c, !.payload = msgRaw,
                                       !.sends = SubSeq(calls, 1, k - 1),
                                       !.threw = calls[k].to]
    /\ alive' = FALSE
    /\ UNCHANGED <<proxyVars, conns, rooms, heap>>

\* the closing handshake starts (a close frame arrives): readyState is CLOSING
\* until the "close" event
TransportClosing(c) ==
    /\ alive
    /\ c \in DOMAIN conns
    /\ conns[c].readyState = "OPEN"
    /\ conns' = [conns EXCEPT ![c].readyState = "CLOSING"]
    /\ lastMsg' = NoMsg
    /\ UNCHANGED <<alive, proxyVars, rooms, heap>>

\* ws.on("error"): the handler logs; ws has put the socket in CLOSING
WsError(c) ==
    /\ alive
    /\ c \in DOMAIN conns
    /\ conns[c].readyState \in {"OPEN", "CLOSING"}
    /\ conns' = [conns EXCEPT ![c].readyState = "CLOSING"]
    /\ lastMsg' = [NoMsg EXCEPT !.warned = c]
    /\ UNCHANGED <<alive, proxyVars, rooms, heap>>

\* the "close" handler without its clean-up
cleanupNever(map, room, roomId) == map

\* the clean-up without its emptiness test
cleanupAlways(map, room, roomId) == mapDelete(map, roomId)

\* the rooms Map after the "close" handler's clean-up of an empty room
cleanup(map, room, roomId) ==
    IF Len(room.viewers) = 0 /\ Len(room.controllers) = 0
    THEN mapDelete(map, roomId)
    ELSE map

\* the "close" handler with the branches of its role test swapped
CloseWrongSet(c) ==
    /\ alive
    /\ c \in DOMAIN conns
    /\ conns[c].readyState \in {"OPEN", "CLOSING"}
    /\ LET room == conns[c].room
           left == IF conns[c].meta.type = "viewer"
                   THEN [heap EXCEPT ![room].controllers = setDelete(@, c)]
                   ELSE [heap EXCEPT ![room].viewers = setDelete(@, c)]
           cs == [conns EXCEPT ![c] = ClosedConn]
           map == cleanup(rooms, left[room], conns[c].roomId)
       IN  /\ conns' = cs
           /\ rooms' = map
           /\ heap' = Collect(left, cs, map)
    /\ lastMsg' = NoMsg
    /\ UNCHANGED <<alive, proxyVars>>

\* the "close" handler without the removal from the role set
CloseKeepsMember(c) ==
    /\ alive
    /\ c \in DOMAIN conns
    /\ conns[c].readyState \in {"OPEN", "CLOSING"}
    /\ LET cs == [conns EXCEPT ![c] = ClosedConn]
           map == cleanup(rooms, heap[conns[c].room], conns[c].roomId)
       IN  /\ conns' = cs
           /\ rooms' = map
           /\ heap' = Collect(heap, cs, map)
    /\ lastMsg' = NoMsg
    /\ UNCHANGED <<alive, proxyVars>>

\* ws.on("close")
Close(c) ==
    /\ alive
    /\ c \in DOMAIN conns
    /\ conns[c].readyState \in {"OPEN", "CLOSING"}
    /\ LET room == conns[c].room
           left == IF conns[c].meta.type = "viewer"
                   THEN [heap EXCEPT ![room].viewers = setDelete(@, c)]
                   ELSE [heap EXCEPT ![room].controllers = setDelete(@, c)]
           cs == [conns EXCEPT ![c] = ClosedConn]
           map == cleanup(rooms, left[room], conns[c].roomId)
       IN  /\ conns' = cs
           /\ rooms' = map
           /\ heap' = Collect(left, cs, map)
    /\ lastMsg' = NoMsg
    /\ UNCHANGED <<alive, proxyVars>>

RelayNext ==
    \/ \E t \in TypeParams, r \in RoomParams : Connect(t, r)
    \/ \E c \in 1..MaxConns, m \in Payloads : Message(c, m)
    \/ \E c \in 1..MaxConns : TransportClosing(c)
    \/ \E c \in 1..MaxConns : WsError(c)
    \/ \E c \in 1..MaxConns : Close(c)

RelayInit ==
    /\ conns = <<>>
    /\ rooms = NoRooms
    /\ heap = NoHeap
    /\ lastMsg = NoMsg

Init == alive = TRUE /\ ProxyInit /\ RelayInit

SpecProxy == Init /\ [][ProxyNext]_vars

SpecRelay == Init /\ [][RelayNext]_vars

\* ws emits "close" for a socket that is CLOSING: after an error or a close
\* frame the socket is destroyed and the event follows
EmitClose(c) ==
    /\ c \in DOMAIN conns
    /\ conns[c].readyState = "CLOSING"
    /\ Close(c)

SpecRelayLive == SpecRelay /\ \A c \in 1..MaxConns : WF_vars(EmitClose(c))

\* the relay when a ws.send call may throw
RelayThrowNext ==
    \/ RelayNext
    \/ \E c \in 1..MaxConns, m \in Payloads, k \in 1..MaxConns : MessageThrows(c, m, k)

SpecRelayThrow == Init /\ [][RelayThrowNext]_vars

Next == ProxyNext \/ RelayNext

Spec == Init /\ [][Next]_vars

\* ===========================================================================
\* Properties
\* ===========================================================================
DenyList ==
    { "x-frame-options", "content-security-policy", "content-security-policy-report-only",
      "strict-transport-security", "content-encoding", "transfer-encoding" }

\* the request in flight got an upstream response whose body was read in full
UpstreamAnswered == pc = "done" /\ upstream.ok /\ upstream.message = ""

UpstreamIsHtml ==
    ContainsTextHtml(IF HeadersGet(upstream.headers, "content-type") # <<>>
                     THEN HeadersGet(upstream.headers, "content-type")
                     ELSE DefaultContentType)

\* C1: a request whose upstream answers with a content type that does not
\* contain text/html is answered 200 with exactly the upstream bytes as body
\* and with no deny-listed upstream header copied.
C1_BinaryPassthrough ==
    (UpstreamAnswered /\ ~UpstreamIsHtml) =>
        /\ res.status = 200
        /\ res.sends = 1
        /\ res.body = upstream.body
        /\ \A i \in 1..Len(copied) : toLowerCase(copied[i].key) \notin DenyList

\* the url parameter is present, not empty, and does not parse
UnparsableTarget == target.given /\ TargetString(target) # "" /\ (target.scheme = "" \/ target.host = "")

\* C2: a request whose url is present but does not parse as an absolute URL is
\* answered with a 4xx status and no fetch is issued for it.
C2_UnparsableIs4xx ==
    (pc = "done" /\ UnparsableTarget) =>
        /\ res.status \in 400..499
        /\ fetches = 0

\* the url parameter is absent or empty
MissingTarget == ~target.given \/ TargetString(target) = ""

\* C3: a request with no url parameter, or an empty one, is answered 400 by a
\* single response; no fetch is issued and no upstream header is copied: the
\* headers are those the middleware set.
C3_MissingUrlIs400 ==
    (pc = "done" /\ MissingTarget) =>
        /\ res.status = 400
        /\ res.sends = 1
        /\ fetches = 0
        /\ copied = <<>>
        /\ res.headers = cors(helmet(NoHeaders))

C3_Witness ==
    /\ pc = "done"
    /\ target.given
    /\ TargetString(target) = ""
    /\ res.status = 400

\* the outbound fetch of the request failed, at connect time or while the body
\* was read
FetchFailed == pc = "done" /\ fetches = 1 /\ upstream.message # ""

\* C4: when the outbound fetch fails the caller gets exactly one response, with
\* a 5xx status and the body "Proxy fetch failed: <message>", and the process
\* stays up: the next request and the next WebSocket event can be handled.
C4_FetchFailureIs5xx ==
    FetchFailed =>
        /\ res.sends = 1
        /\ res.status \in 500..599
        /\ res.body = Utf8Encode(<<"Proxy fetch failed: " \o upstream.message>>)
        /\ alive
        /\ ENABLED ProxyDone
        /\ ENABLED RelayNext

C4_Witness ==
    /\ FetchFailed
    /\ ~upstream.ok
    /\ res.status = 502
    /\ res.body = <<"Proxy fetch failed: fetch failed">>

\* the headers of the upstream response have been received and copied
HeadersCopied == pc \in {"text", "arrayBuffer", "done"} /\ upstream.ok

C6_NoFrameOptionsSent ==
    ( /\ UpstreamAnswered
      /\ ContainsTextHtml(HeadersGet(upstream.headers, "content-type"))
      /\ HeadersGet(upstream.headers, "x-frame-options") # <<>>
      /\ res.status = 200
      /\ res.sends = 1 ) =>
        "x-frame-options" \notin DOMAIN res.headers

IsActive(c) == c \in DOMAIN conns /\ conns[c].readyState # "CLOSED"

Members(room) == Range(room.viewers) \cup Range(room.controllers)

\* C7: a room key is in the registry exactly when a connection that joined
\* under it has not closed yet: every registered room has a member, its members
\* are active connections of that key, and every active connection is a member
\* of the room registered under its key.
C7_RoomExistsIffMember ==
    /\ \A k \in DOMAIN rooms :
          /\ Members(heap[rooms[k]]) # {}
          /\ \A c \in Members(heap[rooms[k]]) : IsActive(c) /\ conns[c].roomId = k
    /\ \A c \in DOMAIN conns :
          IsActive(c) =>
              /\ conns[c].roomId \in DOMAIN rooms
              /\ c \in Members(heap[rooms[conns[c].roomId]])

\* connections joined and all of them have closed: the last member of every
\* room has left and no lookup finds a room
C7_Witness ==
    /\ Len(conns) >= 2
    /\ \A c \in DOMAIN conns : ~IsActive(c)
    /\ rooms = NoRooms

\* a message handler ran last, for a sender of the given type
MessageFrom(type) == lastMsg.from # 0 /\ conns[lastMsg.from].type = type

\* the open connections of the sender's room key that joined as viewers, or as
\* anything else
OpenPeers(viewers) ==
    { d \in DOMAIN conns :
        /\ conns[d].readyState = "OPEN"
        /\ conns[d].roomId = conns[lastMsg.from].roomId
        /\ (conns[d].type = "viewer") = viewers }

Recipients == {lastMsg.sends[i].to : i \in 1..Len(lastMsg.sends)}

\* C8: a message from a controller is sent, payload unmodified, once to every
\* open viewer of its room and to no controller.
C8_ControllerToViewers ==
    MessageFrom("controller") =>
        /\ Recipients = OpenPeers(TRUE)
        /\ Len(lastMsg.sends) = Cardinality(Recipients)
        /\ \A i \in 1..Len(lastMsg.sends) : lastMsg.sends[i].data = lastMsg.payload

\* JSON.parse of a string literal's inside
RECURSIVE JsonUnescape(_)
JsonUnescape(text) ==
    IF text = <<>> THEN <<>>
    ELSE IF text[1] = "\\" /\ Len(text) >= 2
         THEN <<text[2]>> \o JsonUnescape(SubSeq(text, 3, Len(text)))
    ELSE <<text[1]>> \o JsonUnescape(Tail(text))

\* the inside of a string literal is well formed: no bare quote, no dangling
\* backslash
RECURSIVE WellEscaped(_)
WellEscaped(text) ==
    IF text = <<>> THEN TRUE
    ELSE IF text[1] = "\\" THEN Len(text) >= 2 /\ WellEscaped(SubSeq(text, 3, Len(text)))
    ELSE text[1] # "\"" /\ WellEscaped(Tail(text))

\* JSON.parse of the text of an envelope; from is "" when the text is no
\* envelope
ParseEnvelope(text) ==
    IF /\ Len(text) >= 2
       /\ text[1] = "{\"from\":\"viewer\",\"payload\":\""
       /\ text[Len(text)] = "\"}"
       /\ WellEscaped(SubSeq(text, 2, Len(text) - 1))
    THEN [from |-> "viewer", payload |-> JsonUnescape(SubSeq(text, 2, Len(text) - 1))]
    ELSE [from |-> "", payload |-> <<>>]

\* C9: a message from a viewer is sent once to every open connection of its
\* room that is registered as a controller, as the JSON text of
\* {from: "viewer", payload: <the payload as text>}, and to no viewer.
C9_ViewerToControllers ==
    MessageFrom("viewer") =>
        /\ Recipients = OpenPeers(FALSE)
        /\ Len(lastMsg.sends) = Cardinality(Recipients)
        /\ \A i \in 1..Len(lastMsg.sends) :
              ParseEnvelope(Utf8Decode(lastMsg.sends[i].data))
                  = [from |-> "viewer", payload |-> Utf8Decode(lastMsg.payload)]

\* a viewer's message with a quote in it reached a controller while another
\* viewer of the room was open
C9_Witness ==
    /\ MessageFrom("viewer")
    /\ lastMsg.payload = <<"\"", "a">>
    /\ Len(lastMsg.sends) >= 1
    /\ \E d \in OpenPeers(TRUE) : d # lastMsg.from

\* C11: a connection whose type is neither viewer nor controller is registered
\* in the controllers set of its room, and each of its messages is sent,
\* unmodified, to every open viewer of its room.
C11_OtherTypeForwards ==
    MessageFrom("admin") =>
        /\ lastMsg.from \in Range(heap[conns[lastMsg.from].room].controllers)
        /\ Recipients = OpenPeers(TRUE)
        /\ \A i \in 1..Len(lastMsg.sends) : lastMsg.sends[i].data = lastMsg.payload

\* the open peers of the sender's room on the other side of the relay: the
\* viewers when the sender is no viewer, the others when it is one
PeersOfSender == OpenPeers(conns[lastMsg.from].type # "viewer")

\* C12: when one send of a fan-out throws, every other open recipient of the
\* room still gets the message and the process keeps running.
C12_SendFailureIsolated ==
    (lastMsg.from # 0 /\ lastMsg.threw # 0) =>
        /\ alive
        /\ PeersOfSender \ {lastMsg.threw} \subseteq Recipients

\* C13: a connection on which an error event occurred eventually is closed and
\* in no set of any room, with no empty room left in the registry.
C13_ErrorLeadsToClosed ==
    \A c \in 1..MaxConns :
        (lastMsg.warned = c) ~>
            ( /\ c \in DOMAIN conns
              /\ conns[c].readyState = "CLOSED"
              /\ \A o \in DOMAIN heap : c \notin Members(heap[o])
              /\ \A k \in DOMAIN rooms : Members(heap[rooms[k]]) # {} )

\* the error handler has just run for a connection that is still registered
C13_Witness ==
    /\ lastMsg.warned # 0
    /\ conns[lastMsg.warned].readyState = "CLOSING"
    /\ lastMsg.warned \in Members(heap[conns[lastMsg.warned].room])

\* C14: a closed connection stays closed, is in no set of any room and is the
\* target of no send.
C14_ClosedIsTerminal ==
    [][ /\ \A c \in DOMAIN conns : conns[c].readyState = "CLOSED" => conns'[c].readyState = "CLOSED"
        /\ \A c \in DOMAIN conns' :
              conns'[c].readyState = "CLOSED" =>
                  /\ \A o \in DOMAIN heap' : c \notin Members(heap'[o])
                  /\ \A i \in 1..Len(lastMsg'.sends) : lastMsg'.sends[i].to # c ]_vars

\* a message was delivered after a connection had closed
C14_Witness ==
    /\ \E c \in DOMAIN conns : conns[c].readyState = "CLOSED"
    /\ lastMsg.from # 0
    /\ Len(lastMsg.sends) >= 1

\* C17: an active connection is a member of the room registered under its key
\* and of no other room object, of the viewers set exactly when its type is
\* viewer and of the controllers set exactly when it is not, and ws.meta.type,
\* which the close handler reads, is the type the message handler reads.
C17_OneRoomOneSet ==
    \A c \in DOMAIN conns :
        IsActive(c) =>
            /\ {o \in DOMAIN heap : c \in Members(heap[o])} = {conns[c].room}
            /\ conns[c].roomId \in DOMAIN rooms
            /\ rooms[conns[c].roomId] = conns[c].room
            /\ (c \in Range(heap[conns[c].room].viewers)) = (conns[c].type = "viewer")
            /\ (c \in Range(heap[conns[c].room].controllers)) = (conns[c].type # "viewer")
            /\ conns[c].meta.type = conns[c].type

\* a viewer, a controller and a connection of another type are active, in two
\* rooms
C17_Witness ==
    /\ \A c \in 1..3 : IsActive(c)
    /\ {conns[c].type : c \in 1..3} = {"viewer", "controller", "admin"}
    /\ Cardinality(DOMAIN rooms) = 2

\* C18: the room object an active connection holds is the one the registry
\* maps its key to.
C18_SingleMapping ==
    \A c \in DOMAIN conns :
        IsActive(c) =>
            /\ conns[c].roomId \in DOMAIN rooms
            /\ rooms[conns[c].roomId] = conns[c].room

\* the first connection has closed and two active connections share a room
\* object created after it
C18_Witness ==
    /\ Len(conns) = 3
    /\ ~IsActive(1)
    /\ IsActive(2)
    /\ IsActive(3)
    /\ conns[2].roomId = conns[3].roomId
    /\ conns[3].room = 2

\* C19: one message is sent at most once to a connection, only to connections
\* that are open when the handler runs, and no handler but that of the message
\* sends anything: nothing is kept for a connection that was not open.
C19_AtMostOnceNoQueue ==
    /\ Len(lastMsg.sends) = Cardinality(Recipients)
    /\ \A i \in 1..Len(lastMsg.sends) : conns[lastMsg.sends[i].to].readyState = "OPEN"
    /\ lastMsg.from = 0 => lastMsg.sends = <<>>

\* a message reached an open peer while another peer of the room was closing
\* and got nothing
C19_Witness ==
    /\ lastMsg.from # 0
    /\ Len(lastMsg.sends) >= 1
    /\ \E d \in DOMAIN conns :
          /\ conns[d].readyState = "CLOSING"
          /\ conns[d].roomId = conns[lastMsg.from].roomId
          /\ (conns[d].type = "viewer") = (conns[lastMsg.from].type # "viewer")
          /\ d \notin Recipients

\* an opening head tag starts at i: "<head" in any case, then the end of the
\* name (a space or ">"), then attributes up to ">"
HeadTagAt(text, i) ==
    /\ MatchAt(text, i)
    /\ text[i + 5] \in {">", " "}

HasHeadTag(text) == \E i \in 1..Len(text) : HeadTagAt(text, i)

FirstHeadTag(text) ==
    CHOOSE i \in 1..Len(text) : HeadTagAt(text, i) /\ \A k \in 1..(i - 1) : ~HeadTagAt(text, k)

\* the upstream body is text that decoding and encoding leave as it is
BodyIsUtf8 == Utf8Encode(Utf8Decode(upstream.body)) = upstream.body

\* C15: an HTML body with an opening head tag is sent with one base element
\* for the origin of the target right after the first head tag, nothing in
\* between, and with every other byte as the upstream sent it.
C15_BaseAfterFirstHead ==
    (UpstreamAnswered /\ UpstreamIsHtml /\ BodyIsUtf8 /\ HasHeadTag(upstream.body)) =>
        LET body == upstream.body
            j == MatchEnd(body, FirstHeadTag(body))
        IN  res.body = SubSeq(body, 1, j) \o <<BaseElement(Origin(target))>>
                       \o SubSeq(body, j + 1, Len(body))

\* C16: an HTML body with no opening head tag, also one with a header tag,
\* is sent unchanged with status 200.
C16_NoHeadUnchanged ==
    (UpstreamAnswered /\ UpstreamIsHtml /\ BodyIsUtf8 /\ ~HasHeadTag(upstream.body)) =>
        /\ res.status = 200
        /\ res.body = upstream.body

\* the messages of the exceptions the handler can catch
Exceptions == FetchErrors \union {"Invalid URL", "Body is unusable"}

\* the response is the one the catch block sends
CatchBlockAnswered == \E m \in Exceptions : res.body = <<"Proxy fetch failed: " \o m>>

\* C20: a response of /proxy has status 400 exactly when the url is missing,
\* 502 exactly when the catch block answered, and 200 otherwise, whatever the
\* status of the upstream response.
C20_StatusIndependent ==
    pc = "done" =>
        /\ res.status \in {200, 400, 502}
        /\ (res.status = 400) = MissingTarget
        /\ (res.status = 502) = CatchBlockAnswered
        /\ (UpstreamAnswered /\ ~CatchBlockAnswered) => res.status = 200

\* an upstream 500 with an HTML body was answered 200 with the rewritten body
C20_Witness ==
    /\ UpstreamAnswered
    /\ upstream.status = 500
    /\ HasHeadTag(upstream.body)
    /\ res.status = 200
    /\ res.body # upstream.body

\* C10: no message is sent to a connection registered under another room key
\* than the sender's.
C10_CrossRoomIsolation ==
    lastMsg.from # 0 =>
        \A i \in 1..Len(lastMsg.sends) :
            conns[lastMsg.sends[i].to].roomId = conns[lastMsg.from].roomId

\* a controller's message was delivered in its room while a viewer was open in
\* another room
C10_Witness ==
    /\ MessageFrom("controller")
    /\ Len(lastMsg.sends) >= 1
    /\ \E d \in DOMAIN conns :
          /\ conns[d].readyState = "OPEN"
          /\ conns[d].type = "viewer"
          /\ conns[d].roomId # conns[lastMsg.from].roomId
====
